---- MODULE Spec2Model ----
(***************************************************************************)
(* GROECombinationModel (darts/models/groe_combination_model.py): an       *)
(* ensemble whose weights are the normalised reciprocals of the losses the *)
(* GROE cross-validation reports for each constituent model.               *)
(*                                                                         *)
(* The losses, the weights and the forecasts are Python/numpy floats, that *)
(* is IEEE-754 binary64 numbers.  The first part of the module is binary64 *)
(* arithmetic (round to nearest, ties to even, gradual underflow, overflow *)
(* to infinity, NaN) on the non-negative numbers: the losses of a metric   *)
(* and the forecasts drawn below are non-negative, and +, * and / keep     *)
(* them so, hence no sign bit.  A finite float is man * 2^exp with man     *)
(* below 2^53, kept as <<hi, lo>> = hi * 2^27 + lo; it is normalised, so   *)
(* equal numbers are equal records.                                        *)
(***************************************************************************)
EXTENDS Integers, Sequences, FiniteSets, TLC

MantBits == 53
MinExp == -1074
MaxExp == 971
HalfBits == 27
HalfBase == 134217728
LimbBits == 14

RECURSIVE BitLenInt(_)
BitLenInt(n) == IF n = 0 THEN 0 ELSE 1 + BitLenInt(n \div 2)

\* naturals below 2^58 as <<hi, lo>>: the value hi * 2^27 + lo, with lo < 2^27
WZero == <<0, 0>>
WBitLen(w) == IF w[1] > 0 THEN HalfBits + BitLenInt(w[1]) ELSE BitLenInt(w[2])
WCmp(a, b) ==
    IF a[1] # b[1] THEN (IF a[1] < b[1] THEN -1 ELSE 1)
    ELSE IF a[2] # b[2] THEN (IF a[2] < b[2] THEN -1 ELSE 1)
    ELSE 0
WAdd(a, b) ==
    LET lo == a[2] + b[2]
    IN  <<a[1] + b[1] + lo \div HalfBase, lo % HalfBase>>
WSub(a, b) ==
    IF a[2] >= b[2] THEN <<a[1] - b[1], a[2] - b[2]>>
    ELSE <<a[1] - b[1] - 1, a[2] + HalfBase - b[2]>>
WShl(w, k) ==
    IF k >= HalfBits THEN <<w[2] * 2^(k - HalfBits), 0>>
    ELSE <<w[1] * 2^k + w[2] \div 2^(HalfBits - k),
           (w[2] % 2^(HalfBits - k)) * 2^k>>
WShr(w, k) ==
    IF k >= 2 * HalfBits + 4 THEN WZero
    ELSE IF k >= HalfBits
    THEN LET h == w[1] \div 2^(k - HalfBits)
         IN  <<h \div HalfBase, h % HalfBase>>
    ELSE <<w[1] \div 2^k, w[2] \div 2^k + (w[1] % 2^k) * 2^(HalfBits - k)>>
WLow(w, k) ==
    IF k >= HalfBits THEN <<w[1] % 2^(k - HalfBits), w[2]>> ELSE <<0, w[2] % 2^k>>

NaN == [cls |-> "nan", man |-> WZero, exp |-> 0]
Inf == [cls |-> "inf", man |-> WZero, exp |-> 0]
Zero == [cls |-> "fin", man |-> WZero, exp |-> MinExp]
IsZero(a) == a.cls = "fin" /\ a.man = WZero

\* the float64 nearest to (w + f) * 2^e, ties to even, where 0 <= f < 1 and
\* f # 0 iff sticky
RoundWide(w, e, sticky) ==
    IF w = WZero THEN Zero
    ELSE
    LET bl == WBitLen(w)
        e1 == IF e + bl - MantBits > MinExp THEN e + bl - MantBits ELSE MinExp
        sh == e1 - e
    IN  IF sh <= 0 THEN
            IF e1 > MaxExp THEN Inf
            ELSE [cls |-> "fin", man |-> WShl(w, -sh), exp |-> e1]
        ELSE IF sh > bl THEN Zero
        ELSE
        LET kept == WShr(w, sh)
            c == WCmp(WLow(w, sh), WShl(<<0, 1>>, sh - 1))
            up == c > 0 \/ (c = 0 /\ (sticky \/ kept[2] % 2 = 1))
            k1 == IF up THEN WAdd(kept, <<0, 1>>) ELSE kept
            over == WBitLen(k1) > MantBits
            k2 == IF over THEN WShr(k1, 1) ELSE k1
            e2 == IF over THEN e1 + 1 ELSE e1
        IN  IF k2 = WZero THEN Zero
            ELSE IF e2 > MaxExp THEN Inf
            ELSE [cls |-> "fin", man |-> k2, exp |-> e2]

Mk(m, e) == RoundWide(<<0, m>>, e, FALSE)

FAdd(a, b) ==
    IF a.cls = "nan" \/ b.cls = "nan" THEN NaN
    ELSE IF a.cls = "inf" \/ b.cls = "inf" THEN Inf
    ELSE IF IsZero(a) THEN b
    ELSE IF IsZero(b) THEN a
    ELSE LET big == IF a.exp >= b.exp THEN a ELSE b
             sml == IF a.exp >= b.exp THEN b ELSE a
             gap == big.exp - sml.exp
             s3 == WShl(sml.man, 3)
             lost == WLow(s3, gap) # WZero
             sh == WShr(s3, gap)
             jam == IF gap > 56 THEN <<0, 1>>
                    ELSE IF lost /\ sh[2] % 2 = 0 THEN WAdd(sh, <<0, 1>>)
                    ELSE sh
         IN  RoundWide(WAdd(WShl(big.man, 3), jam), big.exp - 3, FALSE)

\* long division of r by den, k more binary places: st = <<quotient, r>>
RECURSIVE DivLoop(_, _, _)
DivLoop(st, den, k) ==
    IF k = 0 THEN st
    ELSE LET rl == 2 * st[2][2]
             r2 == <<2 * st[2][1] + rl \div HalfBase, rl % HalfBase>>
             ql == 2 * st[1][2]
             q2 == <<2 * st[1][1] + ql \div HalfBase, ql % HalfBase>>
         IN  IF r2[1] > den[1] \/ (r2[1] = den[1] /\ r2[2] >= den[2])
             THEN DivLoop(<< <<q2[1], q2[2] + 1>>, WSub(r2, den)>>, den, k - 1)
             ELSE DivLoop(<<q2, r2>>, den, k - 1)

FDiv(a, b) ==
    IF a.cls = "nan" \/ b.cls = "nan" THEN NaN
    ELSE IF a.cls = "inf" THEN (IF b.cls = "inf" THEN NaN ELSE Inf)
    ELSE IF b.cls = "inf" THEN Zero
    ELSE IF IsZero(b) THEN (IF IsZero(a) THEN NaN ELSE Inf)
    ELSE IF IsZero(a) THEN Zero
    ELSE LET sa == MantBits - WBitLen(a.man)
             sb == MantBits - WBitLen(b.man)
             n0 == WShl(a.man, sa)
             dd == WShl(b.man, sb)
             lt == WCmp(n0, dd) < 0
             nn == IF lt THEN WAdd(n0, n0) ELSE n0
             qr == DivLoop(<<(<<0, 1>>), WSub(nn, dd)>>, dd, MantBits + 1)
         IN  RoundWide(qr[1],
                       (a.exp - sa) - (b.exp - sb) - (MantBits + 1)
                           - (IF lt THEN 1 ELSE 0),
                       qr[2] # WZero)

\* the four 14-bit limbs of a 53-bit mantissa, least significant first
Limbs(w) ==
    << w[2] % 2^LimbBits,
       w[2] \div 2^LimbBits + (w[1] % 2) * 2^(HalfBits - LimbBits),
       (w[1] \div 2) % 2^LimbBits,
       w[1] \div 2^(LimbBits + 1) >>

\* the eight 14-bit limbs of the product of two mantissas
MulLimbs(x, y) ==
    LET B == 2^LimbBits
        t1 == x[1] * y[1]
        t2 == x[1] * y[2] + x[2] * y[1] + t1 \div B
        t3 == x[1] * y[3] + x[2] * y[2] + x[3] * y[1] + t2 \div B
        t4 == x[1] * y[4] + x[2] * y[3] + x[3] * y[2] + x[4] * y[1] + t3 \div B
        t5 == x[2] * y[4] + x[3] * y[3] + x[4] * y[2] + t4 \div B
        t6 == x[3] * y[4] + x[4] * y[3] + t5 \div B
        t7 == x[4] * y[4] + t6 \div B
    IN  <<t1 % B, t2 % B, t3 % B, t4 % B, t5 % B, t6 % B, t7 % B, t7 \div B>>

LimbAt(p, i) == IF i <= Len(p) THEN p[i] ELSE 0

\* bits from .. from + n - 1 of the limbs p, n <= 29
BitsOf(p, from, n) ==
    LET i0 == from \div LimbBits + 1
        off == from % LimbBits
        up2 == 2 * LimbBits - off
        w2 == IF n > up2 THEN n - up2 ELSE 0
    IN  ( LimbAt(p, i0) \div 2^off
        + LimbAt(p, i0 + 1) * 2^(LimbBits - off)
        + (LimbAt(p, i0 + 2) % 2^w2) * 2^up2 ) % 2^n

LimbsBitLen(p) ==
    LET top == CHOOSE i \in 0..Len(p) :
                   /\ \A j \in (i + 1)..Len(p) : p[j] = 0
                   /\ i > 0 => p[i] # 0
    IN  IF top = 0 THEN 0 ELSE LimbBits * (top - 1) + BitLenInt(p[top])

LowNonZero(p, s) ==
    \/ \E i \in 1..(s \div LimbBits) : p[i] # 0
    \/ LimbAt(p, s \div LimbBits + 1) % 2^(s % LimbBits) # 0

FMul(a, b) ==
    IF a.cls = "nan" \/ b.cls = "nan" THEN NaN
    ELSE IF a.cls = "inf" \/ b.cls = "inf"
         THEN (IF IsZero(a) \/ IsZero(b) THEN NaN ELSE Inf)
    ELSE IF IsZero(a) \/ IsZero(b) THEN Zero
    ELSE LET p == MulLimbs(Limbs(a.man), Limbs(b.man))
             bl == LimbsBitLen(p)
             s == IF bl > MantBits + 3 THEN bl - (MantBits + 3) ELSE 0
         IN  RoundWide(<<BitsOf(p, s + HalfBits, 29), BitsOf(p, s, HalfBits)>>,
                       a.exp + b.exp + s, LowNonZero(p, s))

FEq(a, b) == a.cls # "nan" /\ b.cls # "nan" /\ a = b
FLt(a, b) ==
    /\ a.cls # "nan" /\ b.cls # "nan"
    /\ a # b
    /\ \/ b.cls = "inf"
       \/ /\ a.cls = "fin" /\ b.cls = "fin"
          /\ \/ a.exp < b.exp
             \/ a.exp = b.exp /\ WCmp(a.man, b.man) < 0

(***************************************************************************)
(* The ensemble.                                                           *)
(***************************************************************************)

\* len(self.models), and the number of timestamps of a forecast
NModels == 2
Horizon == 1

\* self.models, by position in the list
models == 1..NModels

\* Python's None, and an attribute that holds a value
None == <<>>
Some(v) == <<v>>
Get(o) == o[1]

One == Mk(1, 0)
Two == Mk(2, 0)
Seven == Mk(7, 0)
\* 2^-1030, about 8.7e-311: a positive loss whose reciprocal is above the
\* largest float64
Tiny == Mk(1, -1030)

\* n_evaluations: int = 6
DefaultNEvaluations == 6

\* keyword arguments: a dict as a set of <<key, value>>, one pair per key
Keys(kw) == {p[1] : p \in kw}
Lookup(kw, k) == (CHOOSE p \in kw : p[1] = k)[2]
\* dict.pop(k) on the dict
Pop(kw, k) == {p \in kw : p[1] # k}

\* the **groe_kwargs a caller passes
KwargsInputs ==
    { a \cup b : a \in {{}, {<<"n_evaluations", 3>>}, {<<"n_evaluations", 6>>}},
                 b \in {{}, {<<"stride", 1>>}} }

\* what the GROE calls of one fit do: the losses they return, in call order,
\* and whether the call after them raises instead of returning
GroeRuns(losses, mayRaise) ==
    { [rets |-> r, raises |-> FALSE] : r \in [models -> losses] }
    \cup
    IF mayRaise
    THEN { [rets |-> r, raises |-> TRUE] :
               r \in UNION { [1..k -> losses] : k \in 0..(NModels - 1) } }
    ELSE {}

\* the forecasts the constituent models make in one predict: model i
\* forecasts 10 i, 10 i + 1, ..., or the models forecast in the opposite order
Forecasts ==
    { [i \in models |-> [t \in 1..Horizon |-> Mk(10 * i + t - 1, 0)]],
      [i \in models |-> [t \in 1..Horizon |-> Mk(10 * (NModels + 1 - i) + t - 1, 0)]] }

VARIABLES
    n_evaluations,  \* self.n_evaluations
    groe_kwargs,    \* self.groe_kwargs
    criterion,      \* self.criterion: None or a list of floats
    weights,        \* self.weights: None or an array of floats
    predictions,    \* self.predictions: None or a list of series
    groe_calls,     \* the groe(...) calls the last operation made
    call            \* the last operation: its name, argument, outcome, value

vars == <<n_evaluations, groe_kwargs, criterion, weights, predictions,
          groe_calls, call>>

Called(op, arg, outcome, value) ==
    [op |-> op, arg |-> arg, outcome |-> outcome, value |-> value]

\* __init__ with the default n_evaluations and no further keyword
Init ==
    /\ n_evaluations = DefaultNEvaluations
    /\ groe_kwargs = {}
    /\ criterion = None
    /\ weights = None
    /\ predictions = None
    /\ groe_calls = <<>>
    /\ call = Called("__init__", {}, "returned", None)

\* a slip: the new keywords are merged into the stored ones (dict.update)
MergedKwargs(kw) ==
    {p \in groe_kwargs : p[1] \notin Keys(kw)} \cup Pop(kw, "n_evaluations")

\* self.groe_kwargs = groe_kwargs, after the pop
StoredKwargs(kw) == Pop(kw, "n_evaluations")

\* a slip: a changed configuration drops the weights of the last fit
update_groe_params_resetting(kw) ==
    /\ n_evaluations' = IF "n_evaluations" \in Keys(kw)
                        THEN Lookup(kw, "n_evaluations")
                        ELSE n_evaluations
    /\ groe_kwargs' = StoredKwargs(kw)
    /\ groe_calls' = <<>>
    /\ call' = Called("update_groe_params", kw, "returned", None)
    /\ weights' = None
    /\ UNCHANGED <<criterion, predictions>>

update_groe_params(kw) ==
    /\ n_evaluations' = IF "n_evaluations" \in Keys(kw)
                        THEN Lookup(kw, "n_evaluations")
                        ELSE n_evaluations
    /\ groe_kwargs' = StoredKwargs(kw)
    /\ groe_calls' = <<>>
    /\ call' = Called("update_groe_params", kw, "returned", None)
    /\ UNCHANGED <<criterion, weights, predictions>>

\* the values a list holds after self.criterion = [] and one append per
\* groe call that returned
Collected(run) == run.rets

\* the groe(self.train_ts, model, self.metrics, n_evaluations=..., **...)
\* calls of the loop: one per model, in list order, up to the one that raises
GroeCalls(run) ==
    [i \in 1..(Len(run.rets) + IF run.raises THEN 1 ELSE 0) |->
        [model |-> i,
         n_evaluations |-> n_evaluations,
         kwargs |-> groe_kwargs,
         ret |-> IF i <= Len(run.rets) THEN Some(run.rets[i]) ELSE None]]

\* x in list: some element equals x
Contains(c, x) == \E i \in 1..Len(c) : FEq(c[i], x)
\* a slip: the last position that holds x
LastIndex(c, x) ==
    CHOOSE i \in 1..Len(c) : FEq(c[i], x) /\ \A j \in (i + 1)..Len(c) : ~FEq(c[j], x)

\* list.index(x): the first position that holds x
Index(c, x) == CHOOSE i \in 1..Len(c) : FEq(c[i], x) /\ \A j \in 1..(i - 1) : ~FEq(c[j], x)

\* np.zeros(n) with entry k set to 1.
OneHot(n, k) == [i \in 1..n |-> IF i = k THEN One ELSE Zero]

\* 1 / np.array(criterion)
Reciprocal(c) == SubSeq([i \in 1..Len(c) |-> FDiv(One, c[i])], 1, Len(c))

\* score.sum(): numpy adds fewer than 8 float64 from left to right
RECURSIVE NpSum(_, _)
NpSum(a, n) == IF n = 0 THEN Zero ELSE FAdd(NpSum(a, n - 1), a[n])

\* score / total
Normalised(score, total) ==
    SubSeq([i \in 1..Len(score) |-> FDiv(score[i], total)], 1, Len(score))

ScoreWeights(score) == Normalised(score, NpSum(score, Len(score)))

\* lines 64-69
WeightsOf(c) ==
    IF Contains(c, Zero) THEN OneHot(Len(c), Index(c, Zero))
    ELSE ScoreWeights(Reciprocal(c))

fit(run) ==
    /\ criterion' = Some(Collected(run))
    /\ groe_calls' = GroeCalls(run)
    /\ IF run.raises
       THEN /\ weights' = weights
            /\ call' = Called("fit", {}, "EvaluatorError", None)
       ELSE IF Contains(Collected(run), Inf)
       THEN /\ weights' = weights
            /\ call' = Called("fit", {}, "ValueError", None)
       ELSE /\ weights' = Some(WeightsOf(Collected(run)))
            /\ call' = Called("fit", {}, "returned", None)
    /\ UNCHANGED <<n_evaluations, groe_kwargs, predictions>>

\* TimeSeries * float and TimeSeries + TimeSeries, value by value; 0 + ts
Times(ts, w) == SubSeq([t \in 1..Len(ts) |-> FMul(ts[t], w)], 1, Len(ts))
Plus(a, b) == SubSeq([t \in 1..Len(a) |-> FAdd(a[t], b[t])], 1, Len(a))
ZeroPlus(ts) == SubSeq([t \in 1..Len(ts) |-> FAdd(Zero, ts[t])], 1, Len(ts))

Min(a, b) == IF a <= b THEN a ELSE b

\* a slip: the weights are paired with the forecasts from the other end
ProductsReversed(p, w) ==
    [i \in 1..Min(Len(p), Len(w)) |-> Times(p[i], w[Len(w) + 1 - i])]

\* map(lambda ts, weight: ts * weight, predictions, weights): pairs by
\* position, as many as the shorter of the two holds
Products(p, w) == [i \in 1..Min(Len(p), Len(w)) |-> Times(p[i], w[i])]

\* sum(xs): 0 + xs[1] + xs[2] + ...
RECURSIVE SumFrom(_, _, _)
SumFrom(acc, xs, i) ==
    IF i > Len(xs) THEN acc ELSE SumFrom(Plus(acc, xs[i]), xs, i + 1)
PySum(xs) == SumFrom(ZeroPlus(xs[1]), xs, 2)

Combined(p, w) == PySum(Products(p, w))

\* what a call of combination_function does: its value, or
\* the TypeError of map(...) over None
Combine(p, w) ==
    IF p = None \/ w = None
    THEN Called("combination_function", {}, "TypeError", None)
    ELSE Called("combination_function", {}, "returned",
                Some(Combined(Get(p), Get(w))))

\* a slip: the call uses the stored forecasts up
combination_function_draining ==
    /\ call' = Combine(predictions, weights)
    /\ groe_calls' = <<>>
    /\ predictions' = None
    /\ UNCHANGED <<n_evaluations, groe_kwargs, criterion, weights>>

combination_function ==
    /\ call' = Combine(predictions, weights)
    /\ groe_calls' = <<>>
    /\ UNCHANGED <<n_evaluations, groe_kwargs, criterion, weights, predictions>>

\* the base ensemble's predict: it stores the forecast of every model and
\* returns self.combination_function()
predict(f) ==
    /\ predictions' = Some(f)
    /\ call' = [Combine(Some(f), weights) EXCEPT !.op = "predict"]
    /\ groe_calls' = <<>>
    /\ UNCHANGED <<n_evaluations, groe_kwargs, criterion, weights>>

\* the whole life of an ensemble; the GROE returns a perfect loss, an
\* ordinary one or the unbounded one, or raises
Next ==
    \/ \E kw \in KwargsInputs : update_groe_params(kw)
    \/ \E run \in GroeRuns({Zero, Two, Inf}, TRUE) : fit(run)
    \/ \E f \in Forecasts : predict(f)
    \/ combination_function

Spec == Init /\ [][Next]_vars

\* fits that evaluate every model, over more losses, and their forecasts
NextWeights ==
    \/ \E run \in GroeRuns({Zero, Tiny, Two, Seven}, FALSE) : fit(run)
    \/ \E f \in Forecasts : predict(f)
    \/ combination_function

SpecWeights == Init /\ [][NextWeights]_vars
(***************************************************************************)
(* The claims.                                                             *)
(***************************************************************************)

\* the last operation was a fit that returned / that made every groe call
FitReturned == call.op = "fit" /\ call.outcome = "returned"
FitEvaluatedAll == call.op = "fit" /\ call.outcome # "EvaluatorError"

FLe(a, b) == FLt(a, b) \/ FEq(a, b)

\* 1 + 2^-30: equal to within 1e-9, relative
OnePlusTol == RoundWide(<<8, 1>>, -30, FALSE)
Near(a, b) == FLe(a, FMul(b, OnePlusTol)) /\ FLe(b, FMul(a, OnePlusTol))

\* C1: a fit whose criterion holds the unbounded loss fails with the
\* evaluation-impossible error, and after it no weight vector is available,
\* not even the one of an earlier fit.
C1_ImpossibleFitLeavesNoWeights ==
    (FitEvaluatedAll /\ Contains(Get(criterion), Inf))
        => (call.outcome = "ValueError" /\ weights = None)

\* C2: after a fit that returned there is one weight per model, no weight is
\* negative, and the weights sum to 1 (here: to within 1e-9, which exactly 1
\* implies).
C2_WeightsAreNonNegativeAndSumToOne ==
    FitReturned =>
        LET w == Get(weights)
        IN  /\ Len(w) = NModels
            /\ \A i \in 1..Len(w) : FLe(Zero, w[i])
            /\ Near(NpSum(w, Len(w)), One)

\* C3: after a fit that returned with no zero loss, weight times loss is the
\* same for every model (here: to within 1e-9, which equality implies), and
\* a smaller loss has a strictly larger weight.
C3_WeightsInverselyProportional ==
    (FitReturned /\ ~Contains(Get(criterion), Zero)) =>
        LET w == Get(weights)
            c == Get(criterion)
        IN  \A i, j \in models :
                /\ Near(FMul(w[i], c[i]), FMul(w[j], c[j]))
                /\ FLt(c[i], c[j]) => FLt(w[j], w[i])

\* C4: after a fit with no unbounded loss and some zero loss, the weight is 1
\* at the first model whose loss is zero and 0 at every other model.
C4_FirstZeroLossTakesAll ==
    (FitReturned /\ \E i \in models : FEq(Get(criterion)[i], Zero)) =>
        /\ Len(Get(weights)) = NModels
        /\ \A i \in models :
               Get(weights)[i] =
                   IF /\ FEq(Get(criterion)[i], Zero)
                      /\ \A j \in 1..(i - 1) : ~FEq(Get(criterion)[j], Zero)
                   THEN One ELSE Zero

C4_Witness ==
    /\ FitReturned
    /\ \E i, j \in models :
           /\ i < j
           /\ FEq(Get(criterion)[i], Zero) /\ FEq(Get(criterion)[j], Zero)
           /\ Get(weights)[i] = One /\ Get(weights)[j] = Zero

\* the weighted sum at timestamp t over the first n models
RECURSIVE WeightedSum(_, _)
WeightedSum(t, n) ==
    LET term == FMul(Get(weights)[n], Get(predictions)[n][t])
    IN  IF n = 1 THEN term ELSE FAdd(WeightedSum(t, n - 1), term)

\* C5: the value of combination_function is, at every timestamp, the sum
\* over all models of weight i times forecast i.
C5_CombinationIsTheWeightedSum ==
    (call.op \in {"combination_function", "predict"} /\ call.outcome = "returned") =>
        /\ Len(Get(call.value)) = Horizon
        /\ \A t \in 1..Horizon : Get(call.value)[t] = WeightedSum(t, NModels)

C5_Witness ==
    /\ call.op = "combination_function" /\ call.outcome = "returned"
    /\ Get(criterion)[1] = Two /\ Get(criterion)[NModels] = Seven
    /\ Get(weights)[1] # Get(weights)[NModels]

\* C6: update_groe_params stores exactly the keywords it is given, less
\* n_evaluations; a given n_evaluations becomes the evaluation count, and
\* without one the evaluation count stays.
C6_UpdateReplacesTheOptions ==
    [][call'.op = "update_groe_params" =>
          LET kw == call'.arg
              given == {p \in kw : p[1] = "n_evaluations"}
          IN  /\ groe_kwargs' = kw \ given
              /\ given # {} => \A p \in given : n_evaluations' = p[2]
              /\ given = {} => n_evaluations' = n_evaluations]_vars

C6_Witness ==
    /\ call.op = "update_groe_params"
    /\ call.arg = {<<"n_evaluations", 3>>}
    /\ n_evaluations = 3
    /\ groe_kwargs = {}
    /\ weights # None

\* C7: update_groe_params changes neither the criterion nor the weights nor
\* what combination_function returns; the groe calls of a fit use the
\* evaluation count and the options stored when it runs.
C7_UpdateLeavesTheFitAlone ==
    /\ [][call'.op = "update_groe_params" =>
             /\ criterion' = criterion
             /\ weights' = weights
             /\ Combine(predictions', weights') = Combine(predictions, weights)]_vars
    /\ [](call.op = "fit" =>
             \A i \in 1..Len(groe_calls) :
                 /\ groe_calls[i].n_evaluations = n_evaluations
                 /\ groe_calls[i].kwargs = groe_kwargs)

C7_Witness ==
    /\ call.op = "update_groe_params"
    /\ n_evaluations = 3 /\ groe_kwargs = {<<"stride", 1>>}
    /\ weights # None /\ predictions # None
    /\ Combine(predictions, weights).outcome = "returned"

\* C8: the criterion and the weights each hold one entry per model, in
\* every state in which they are set.
C8_OneEntryPerModel ==
    /\ criterion # None => Len(Get(criterion)) = NModels
    /\ weights # None => Len(Get(weights)) = NModels

\* C9: a call of combination_function changes no attribute and makes no groe
\* call, and called again on the same forecasts it returns the same value.
C9_CombinationHasNoSideEffect ==
    [][call'.op = "combination_function" =>
          /\ UNCHANGED <<n_evaluations, groe_kwargs, criterion, weights, predictions>>
          /\ groe_calls' = <<>>
          /\ call.op \in {"combination_function", "predict"} =>
                 call'.value = call.value]_vars

C9_Witness ==
    /\ call.op = "combination_function" /\ call.outcome = "returned"
    /\ criterion # None /\ Contains(Get(criterion), Inf)

\* C10: a fit calls groe once per model, in list order, with the stored
\* evaluation count and options; the criterion is what these calls returned,
\* and criterion and weights are determined by them alone: no weights when
\* one of them is unbounded, their weights otherwise.
C10_FitRestsOnItsOwnGroeCalls ==
    FitEvaluatedAll =>
        /\ Len(groe_calls) = NModels
        /\ Len(Get(criterion)) = NModels
        /\ \A i \in models :
               /\ groe_calls[i].model = i
               /\ groe_calls[i].n_evaluations = n_evaluations
               /\ groe_calls[i].kwargs = groe_kwargs
               /\ Get(criterion)[i] = Get(groe_calls[i].ret)
        /\ weights = IF \E i \in models : Get(groe_calls[i].ret) = Inf
                     THEN None
                     ELSE Some(WeightsOf([i \in models |-> Get(groe_calls[i].ret)]))
====
